---- MODULE Spec2Model ----
(***************************************************************************)
(* Tender matching service: TenderMatchingService (services/               *)
(* tender_matcher.py) over UniqueProductsMongoStore (storage/              *)
(* unique_products_mongo.py), SemanticSearchService (services/            *)
(* semantic_search.py) and EnhancedAttributeMatcher (services/             *)
(* attribute_matcher.py), with the POST /match-item endpoint (api/         *)
(* endpoints/tender_matching.py).                                          *)
(*                                                                         *)
(* Scores are integers in thousandths (1000 = 1.0).  A classification code *)
(* is a sequence of one-character strings.  The steps of one asyncio       *)
(* coroutine between two suspension points are one atomic action: the      *)
(* suspension points are the store queries and the executor call of the    *)
(* semantic model.                                                         *)
(***************************************************************************)
EXTENDS Integers, Sequences, FiniteSets, TLC

\* ------------------------------------------------------------------ bounds
MaxItems == 3
MaxParallel == 2
BulkProducts == 51
MaxResultsArg == 3
MaxResolves == 2
MaxRequests == 2
MaxChars == 2

\* ------------------------------------------------------- program constants
ResolverLimit == 10
EnhancedLimit == 1000
SemanticStageMin == 50
ScoringCap == 100
SemanticThreshold == 350
HighThreshold == 600
MaxSemanticCandidates == 200
DefaultMaxMatched == 10
DefaultMinProducts == 5
NeutralScore == 500
NameTermTitleWeight == 8000
Absent == -1
Okpd2CacheTtl == 3600
PriceTolerancePercent == 20
TenderAmount == 100

\* ----------------------------------------------------------------- helpers
Min(a, b) == IF a < b THEN a ELSE b

Take(s, n) == SubSeq(s, 1, Min(n, Len(s)))

Range(s) == {s[i] : i \in 1..Len(s)}

RECURSIVE SumSeq(_)
SumSeq(s) == IF s = << >> THEN 0 ELSE Head(s) + SumSeq(Tail(s))

\* list.sort(key=..., reverse=True) over <<key, element>> pairs: a stable
\* sort, descending by key (the elements of the greatest key in their
\* order, then those of the next key, and so on).
RECURSIVE SortByKeys(_, _)
SortByKeys(s, keys) ==
    IF keys = {} THEN << >>
    ELSE LET m == CHOOSE k \in keys : \A j \in keys : j <= k
         IN  SelectSeq(s, LAMBDA x : x[1] = m) \o SortByKeys(s, keys \ {m})

SortPairsDesc(s) == SortByKeys(s, {s[i][1] : i \in 1..Len(s)})

Values(pairs) == [i \in 1..Len(pairs) |-> pairs[i][2]]

\* ----------------------------------------------------------- classification
CodePen == <<"3", ".", "1">>
CodeInk == <<"4", ".", "2">>
CodeBox == <<"7", ".", "0">>
NoCode == << >>

\* re.match / $regex of "^" + pattern against a code: "." matches any one
\* character, every other character matches itself.
RegexPrefixMatch(pat, code) ==
    /\ Len(pat) <= Len(code)
    /\ \A i \in 1..Len(pat) : pat[i] = "." \/ pat[i] = code[i]

IsPrefix(pre, code) ==
    /\ Len(pre) <= Len(code)
    /\ \A i \in 1..Len(pre) : pre[i] = code[i]

\* ----------------------------------------------------------- the collection
\* The documents of the unique_products collection, numbered in the order
\* of the sort the store applies (unique_suppliers_count descending).
CatalogSize == 3 + BulkProducts

Product(i) ==
    CASE i = 1 -> [product_hash |-> 1, okpd2_code |-> CodePen, title |-> {"pen"},
                   attr |-> "mismatch",
                   suppliers |-> <<[supplier_key |-> "s1", best_price |-> 150],
                                   [supplier_key |-> "s2", best_price |-> 90]>>]
      [] i = 2 -> [product_hash |-> 2, okpd2_code |-> CodePen, title |-> {"pen"},
                   attr |-> "match",
                   suppliers |-> <<[supplier_key |-> "s1", best_price |-> 0]>>]
      [] i = 3 -> [product_hash |-> 3, okpd2_code |-> CodeInk, title |-> {"ink"},
                   attr |-> "absent",
                   suppliers |-> <<[supplier_key |-> "s3", best_price |-> 100]>>]
      [] OTHER -> [product_hash |-> i, okpd2_code |-> CodeBox, title |-> {"box"},
                   attr |-> "absent", suppliers |-> << >>]

Collection == [i \in 1..CatalogSize |-> i]

\* ------------------------------------------------------------ tender items
\* okpd2Code; terms: the search terms TenderTermExtractor derives from the
\* name; chars: "none" (no characteristics), "named" (one required
\* qualitative characteristic), "null_name" (one characteristic whose name
\* is None); price: unitPrice["amount"] is a number ("ok") or not.
ItemPool ==
    { [okpd2Code |-> CodePen, terms |-> {"pen"}, chars |-> "named", price |-> "ok"],
      [okpd2Code |-> CodePen, terms |-> {"pen"}, chars |-> "null_name",
       price |-> "nonnumeric"],
      [okpd2Code |-> NoCode, terms |-> {}, chars |-> "none", price |-> "ok"] }

RECURSIVE SeqsUpTo(_, _)
SeqsUpTo(S, n) ==
    IF n = 0 THEN { << >> }
    ELSE LET shorter == SeqsUpTo(S, n - 1)
         IN  shorter \cup {Append(s, x) : s \in {t \in shorter : Len(t) = n - 1}, x \in S}

\* ------------------------------------------------- UniqueProductsMongoStore
\* A product as a query returns it: the document and the keys the store and
\* the semantic service add to it (Absent: the key is not in the dict).
Candidate(i) ==
    [p |-> i, weighted_score |-> Absent, text_search_score |-> Absent,
     semantic_score |-> Absent, combined_score |-> Absent]

NoFilter == [on |-> FALSE, prefix |-> << >>]
CodeFilter(code) == [on |-> TRUE, prefix |-> code]

MatchesFilter(filter, i) ==
    filter.on => RegexPrefixMatch(filter.prefix, Product(i).okpd2_code)

\* find_products(filters, limit): [] when not connected or when the query
\* raises (ok = FALSE), else the documents matching the filter, sorted by
\* unique_suppliers_count descending, at most limit of them.
FindProducts(filter, limit, ok) ==
    IF ~ok THEN << >>
    ELSE LET hits == SelectSeq(Collection, LAMBDA i : MatchesFilter(filter, i))
         IN  [k \in 1..Min(limit, Len(hits)) |-> Candidate(hits[k])]

\* _calculate_weighted_score: the name term found in sample_title counts
\* weight 4.0 twice.
WeightedScore(terms, i) ==
    NameTermTitleWeight * Cardinality(terms \cap Product(i).title)

StoreOutcomes == {"ok", "error_fallback_ok", "empty"}

\* find_products_enhanced(okpd2_code, search_terms, weighted_terms, limit).
\* outcome "ok": the query runs (no text index: every search term must
\* occur in the title); "error_fallback_ok": the query raises and the plain
\* find_products with the code regex answers; "empty": the store is not
\* connected, or both queries raise.
FindProductsEnhanced(okpd2_code, terms, limit, outcome) ==
    CASE outcome = "empty" -> << >>
      [] outcome = "error_fallback_ok" ->
            FindProducts(CodeFilter(okpd2_code), limit, TRUE)
      [] OTHER ->
            LET filter == IF okpd2_code # << >> THEN CodeFilter(okpd2_code) ELSE NoFilter
                hits == SelectSeq(Collection,
                            LAMBDA i : /\ MatchesFilter(filter, i)
                                       /\ terms \subseteq Product(i).title)
                found == [k \in 1..Min(limit, Len(hits)) |->
                            [Candidate(hits[k]) EXCEPT
                                !.text_search_score = 0,
                                !.weighted_score =
                                    IF terms # {} THEN WeightedScore(terms, hits[k])
                                    ELSE Absent]]
            IN  IF terms # {}
                THEN Values(SortPairsDesc(
                        [k \in 1..Len(found) |->
                            <<(IF found[k].weighted_score = Absent THEN 0
                               ELSE found[k].weighted_score), found[k]>>]))
                ELSE found

\* ---------------------------------------------------- SemanticSearchService
SemanticProfiles == {"low", "split", "error"}

\* compute_similarities: the model's cosine similarity of each product
\* ("low": 0.1 for every product, "split": 0.1 for odd documents, 0.9 for
\* every eighth document from the second on and 0.65 for the other even
\* ones), or, when encoding raises ("error"), the neutral 0.5 for every
\* product that has no semantic_score yet.
ComputeSimilarities(cands, profile) ==
    [k \in 1..Len(cands) |->
        [cands[k] EXCEPT !.semantic_score =
            CASE profile = "low" -> 100
              [] profile = "split" -> IF cands[k].p % 2 = 1 THEN 100
                                      ELSE IF cands[k].p % 8 = 2 THEN 900 ELSE 650
              [] OTHER -> IF @ = Absent THEN NeutralScore ELSE @]]

\* filter_by_similarity(products, threshold, top_k)
FilterBySimilarity(cands, threshold, top_k) ==
    LET sem(c) == IF c.semantic_score = Absent THEN 0 ELSE c.semantic_score
        kept == SelectSeq(cands, LAMBDA c : sem(c) >= threshold)
        sorted == Values(SortPairsDesc([k \in 1..Len(kept) |-> <<sem(kept[k]), kept[k]>>]))
    IN  IF top_k > 0 THEN Take(sorted, top_k) ELSE sorted

\* combine_scores(products), text weight 0.4 and semantic weight 0.6
CombineScores(cands) ==
    LET text(c) == IF c.text_search_score = Absent THEN 0 ELSE c.text_search_score
        sem(c) == IF c.semantic_score = Absent THEN 0 ELSE c.semantic_score
        norm(c) == IF text(c) > 1000 THEN Min(text(c) \div 10, 1000) ELSE text(c)
        comb(c) == IF norm(c) < 100 /\ sem(c) > 700
                   THEN (7 * norm(c) + 3 * sem(c)) \div 10
                   ELSE (4 * norm(c) + 6 * sem(c)) \div 10
        scored == [k \in 1..Len(cands) |-> [cands[k] EXCEPT !.combined_score = comb(cands[k])]]
    IN  Values(SortPairsDesc([k \in 1..Len(scored) |-> <<scored[k].combined_score, scored[k]>>]))

\* ---------------------------------------------------- TenderMatchingService
\* calculate_match_score: with the enhanced matcher (enable_semantic_search)
\* EnhancedAttributeMatcher.match_characteristics decides, the score of an
\* unsuitable product being 0.0; else the legacy soft scoring.  The
\* enhanced matcher raises AttributeError on a characteristic whose name is
\* None (tender_char.get('name', '').strip()).
MatchScoreRaises(item, em) == em /\ item.chars = "null_name"

MatchScore(item, i, em) ==
    IF em
    THEN CASE item.chars = "none" -> 1000
           [] item.chars = "named" /\ Product(i).attr = "match" -> 1000
           [] OTHER -> 0
    ELSE CASE item.chars = "none" -> 500
           [] item.chars = "null_name" -> 600
           [] Product(i).attr = "match" -> 1000
           [] Product(i).attr = "mismatch" -> 370
           [] OTHER -> 300

\* The supplier loop compares tender_price > 0 for every supplier that has
\* a best price: TypeError when unitPrice["amount"] is not a number.
SupplierLoopRaises(item, i) ==
    /\ item.price = "nonnumeric"
    /\ \E k \in 1..Len(Product(i).suppliers) : Product(i).suppliers[k].best_price # 0

ProductRaise(item, i, em) ==
    IF MatchScoreRaises(item, em) THEN "AttributeError"
    ELSE IF SupplierLoopRaises(item, i) THEN "TypeError"
    ELSE ""

\* The exception the scoring loop over cands ends with ("" when it ends
\* normally): that of the first product that raises.
FirstRaise(item, cands, em) ==
    LET raising == {k \in 1..Len(cands) : ProductRaise(item, cands[k].p, em) # ""}
    IN  IF raising = {} THEN ""
        ELSE ProductRaise(item, cands[CHOOSE k \in raising : \A j \in raising : k <= j].p, em)

\* tender_item.unitPrice.get('amount', 0) of an item whose amount is a number
UnitPriceAmount(item) == IF item.price = "ok" THEN TenderAmount ELSE 0

\* if best_price and tender_price > 0: best_price is neither None nor 0
HasBestPrice(best_price) == best_price # Absent /\ best_price # 0

\* Fault: the bonus is computed against the tender price itself, without
\* the tolerance.
SupplierScoreNoTolerance(score, best_price, tender_price, tolerance) ==
    IF HasBestPrice(best_price) /\ tender_price > 0 /\ best_price <= tender_price
    THEN (score * (2 * tender_price - best_price)) \div tender_price
    ELSE score

\* supplier_score = score; price_ratio = best_price / tender_price;
\* max_price_ratio = 1 + tolerance / 100; when price_ratio <= max_price_ratio,
\* supplier_score *= 2.0 - price_ratio / max_price_ratio.  Prices are whole
\* numbers and the tolerance whole percents; the score is in thousandths.
SupplierScore(score, best_price, tender_price, tolerance) ==
    IF /\ HasBestPrice(best_price)
       /\ tender_price > 0
       /\ 100 * best_price <= tender_price * (100 + tolerance)
    THEN (score * (2 * tender_price * (100 + tolerance) - 100 * best_price))
             \div (tender_price * (100 + tolerance))
    ELSE score

\* MatchedSupplier(supplier_key=..., match_score=supplier_score, ...)
MatchedSupplier(supplier, score) ==
    [supplier_key |-> supplier.supplier_key, match_score |-> score]

\* Fault: the suppliers are left in the order of the document.
SuppliersAsListed(matched_suppliers) == matched_suppliers

\* matched_suppliers.sort(key=lambda x: x.match_score, reverse=True)
RankSuppliers(matched_suppliers) ==
    Values(SortPairsDesc([k \in 1..Len(matched_suppliers) |->
                            <<matched_suppliers[k].match_score, matched_suppliers[k]>>]))

\* MatchedProduct(product_hash=..., matched_suppliers=..., total_suppliers=...,
\* match_score=...); the fields copied from the document (okpd2_code, the
\* suppliers' keys) are read through product_hash.
MatchedProduct(c, score, tender_price) ==
    LET suppliers == Product(c.p).suppliers
        matched_suppliers ==
            RankSuppliers([k \in 1..Len(suppliers) |->
                MatchedSupplier(suppliers[k],
                                SupplierScore(score, suppliers[k].best_price, tender_price,
                                              PriceTolerancePercent))])
    IN  [product_hash |-> Product(c.p).product_hash,
         match_score |-> score,
         matched_suppliers |-> matched_suppliers,
         total_suppliers |-> Len(matched_suppliers)]

\* The highest match_score among the scored products that are not returned
\* (Absent when every scored product is returned): a score is dropped when
\* more scored products than returned ones have it.
DroppedMax(scores, kept) ==
    LET count(s, v) == Cardinality({k \in 1..Len(s) : s[k] = v})
        kept_scores == [k \in 1..Len(kept) |-> kept[k].match_score]
        dropped == {v \in Range(scores) : count(scores, v) > count(kept_scores, v)}
    IN  IF dropped = {} THEN Absent
        ELSE CHOOSE v \in dropped : \A w \in dropped : w <= v

\* Fault: the sort without reverse=True, the lowest scores first.
RankAscendingAndTruncate(matched, max_matched) ==
    LET ranked == Values(SortPairsDesc([k \in 1..Len(matched) |->
                                          <<matched[k].match_score, matched[k]>>]))
    IN  Take([k \in 1..Len(ranked) |-> ranked[Len(ranked) + 1 - k]], max_matched)

\* matched_products.sort(key=match_score, reverse=True), then the first
\* max_matched_products_per_item of them.
RankAndTruncate(matched, max_matched) ==
    Take(Values(SortPairsDesc([k \in 1..Len(matched) |->
                                <<matched[k].match_score, matched[k]>>])),
         max_matched)

TenderItemMatch(id, code, products, status, message) ==
    [tender_item_id |-> id,
     okpd2_code |-> code,
     matched_products |-> products,
     total_matches |-> Len(products),
     best_match_score |-> IF products # << >> THEN products[1].match_score ELSE 0,
     processing_status |-> status,
     error_message |-> message]

\* Fault: an item without candidates is reported as a success with an
\* empty product list.
EmptySuccess(id, item) == TenderItemMatch(id, item.okpd2Code, << >>, "success", "")

\* if not products: return TenderItemMatch(..., processing_status="no_matches")
NoMatches(id, item) == TenderItemMatch(id, item.okpd2Code, << >>, "no_matches", "")

\* Fault: the handler swallows the exception and reports an item without
\* matches.
ErrorSwallowed(id, item, message) ==
    TenderItemMatch(id, item.okpd2Code, << >>, "no_matches", "")

\* except Exception as e of _match_tender_item_standard:
\* processing_status="error", error_message=str(e)
ErrorMatch(id, item, message) ==
    TenderItemMatch(id, item.okpd2Code, << >>, "error", message)

\* The try block of _match_tender_item_standard from the answer of the
\* lookup on.  raised # "": the exception that ends it.
StandardScoring(id, item, cands, em, max_matched) ==
    IF cands = << >> THEN [raised |-> "", match |-> NoMatches(id, item), scores |-> << >>]
    ELSE IF FirstRaise(item, cands, em) # ""
         THEN [raised |-> FirstRaise(item, cands, em), match |-> NoMatches(id, item),
               scores |-> << >>]
         ELSE [raised |-> "",
               scores |-> [k \in 1..Len(cands) |-> MatchScore(item, cands[k].p, em)],
               match |-> TenderItemMatch(id, item.okpd2Code,
                  RankAndTruncate([k \in 1..Len(cands) |->
                                      MatchedProduct(cands[k],
                                                     MatchScore(item, cands[k].p, em),
                                                     UnitPriceAmount(item))],
                                  max_matched),
                  "success", "")]

\* final_score = 0.4 * match_score + 0.3 * text_score + 0.3 * semantic_score,
\* with product.get('weighted_score', 0.5) and product.get('semantic_score', 0.5)
FinalScore(match_score, c) ==
    LET text == IF c.weighted_score = Absent THEN NeutralScore ELSE c.weighted_score
        sem == IF c.semantic_score = Absent THEN NeutralScore ELSE c.semantic_score
    IN  (4 * match_score + 3 * text + 3 * sem) \div 10

\* Stage 4 of _match_tender_item_enhanced: the scoring of products[:100],
\* the sort and the truncation.  raised # "": the exception that sends the
\* item to the standard algorithm.
EnhancedScoring(id, item, cands, max_matched) ==
    LET head == Take(cands, ScoringCap)
    IN  IF FirstRaise(item, head, TRUE) # ""
        THEN [raised |-> FirstRaise(item, head, TRUE), match |-> NoMatches(id, item),
              scores |-> << >>]
        ELSE [raised |-> "",
              scores |-> [k \in 1..Len(head) |->
                             FinalScore(MatchScore(item, head[k].p, TRUE), head[k])],
              match |-> TenderItemMatch(id, item.okpd2Code,
                  RankAndTruncate([k \in 1..Len(head) |->
                                      MatchedProduct(head[k],
                                          FinalScore(MatchScore(item, head[k].p, TRUE),
                                                     head[k]),
                                          UnitPriceAmount(item))],
                                  max_matched),
                  "success", "")]

\* Stage 3 of _match_tender_item_enhanced, run when len(products) > 50.
SemanticStage(cands, profile, threshold) ==
    CombineScores(FilterBySimilarity(ComputeSimilarities(cands, profile),
                                     threshold, MaxSemanticCandidates))

\* self.semantic_threshold: the default, or the semantic_threshold of the
\* request (a number from 0.0 to 1.0), here one above the neutral score.
SemanticThresholds == {SemanticThreshold, HighThreshold}

\* find_products_by_okpd2_with_fallback(okpd2_code, min_results, max_results):
\* one unfiltered query of the first 10 products.
ResolverQuery(okpd2_code, min_results, max_results) ==
    [filter |-> NoFilter, limit |-> ResolverLimit]

FindProductsByOkpd2WithFallback(okpd2_code, min_results, max_results, ok) ==
    LET q == ResolverQuery(okpd2_code, min_results, max_results)
    IN  FindProducts(q.filter, q.limit, ok)

\* --------------------------- calculate_match_score on characteristic lists
\* None of Python, among strings.
None == "None"

Truthy(s) == s \notin {None, ""}

\* ch.type: "Количественная" or "Качественная"
Quantitative == "Quantitative"
Qualitative == "Qualitative"

\* A TenderCharacteristic: name and value are optional strings.
CharPool ==
    [name : {None, "", "size"}, value : {None, "5"},
     type : {Quantitative, Qualitative}, required : BOOLEAN]

\* standardized_attributes of a product: none, or the attribute "size" with
\* the value asked for, with another value, or without a value.
AttrLists ==
    { << >> } \cup {<<[standard_name |-> "size", standard_value |-> v]>> : v \in {None, "5", "7"}}

\* A match record: the name of the characteristic and the list it is in.
MatchRecord(name, list) == [name |-> name, list |-> list]

\* The keys of a dict built by assignment in a loop over s, in insertion
\* order: the truthy names, each at its first occurrence.
DictKeys(names) ==
    LET first == {i \in 1..Len(names) :
                     Truthy(names[i]) /\ \A j \in 1..(i - 1) : names[j] # names[i]}
        nth(k) == CHOOSE i \in first : Cardinality({j \in first : j <= i}) = k
    IN  [k \in 1..Cardinality(first) |-> names[nth(k)]]

\* The value of a key of such a dict: the last element assigned to it.
DictValue(s, names, key) ==
    s[CHOOSE i \in 1..Len(s) : names[i] = key /\ \A j \in (i + 1)..Len(s) : names[j] # key]

\* check_numeric_match(tender_value, product_value) on plain values
CheckNumericMatch(tender_value, product_value) ==
    Truthy(tender_value) /\ Truthy(product_value) /\ tender_value = product_value

\* The loop body of the legacy scoring for one key of tender_chars: the
\* list the record is appended to ("" when no record is appended) and the
\* credit added to total_score, in hundredths.
LegacyRecord(tender_char, attrs) ==
    LET attr_names == [i \in 1..Len(attrs) |-> attrs[i].standard_name]
        found == \E i \in 1..Len(attrs) :
                    Truthy(attr_names[i]) /\ attr_names[i] = tender_char.name
        product_value == DictValue(attrs, attr_names, tender_char.name).standard_value
        score_weight == IF tender_char.required THEN 100 ELSE 50
    IN  IF ~found THEN [list |-> "missing", credit |-> 0]
        ELSE IF tender_char.type = Quantitative /\ Truthy(tender_char.value)
        THEN IF product_value = None THEN [list |-> "", credit |-> 0]
             ELSE IF CheckNumericMatch(tender_char.value, product_value)
                  THEN [list |-> "matched", credit |-> score_weight]
                  ELSE [list |-> "missing", credit |-> score_weight \div 5]
        ELSE IF tender_char.value = None THEN [list |-> "", credit |-> 0]
             ELSE IF tender_char.value = product_value
                  THEN [list |-> "matched", credit |-> score_weight]
                  ELSE [list |-> "missing", credit |-> score_weight \div 10]

\* calculate_match_score, the legacy scoring: 0.5 without characteristics,
\* else 0.3 + 0.7 * total_score / len(tender_chars), or 0.6 when no
\* characteristic has a name.
LegacyMatchScore(chars, attrs) ==
    IF chars = << >>
    THEN [raised |-> "", score |-> 500, records |-> << >>]
    ELSE LET names == [i \in 1..Len(chars) |-> chars[i].name]
             keys == DictKeys(names)
             recs == [k \in 1..Len(keys) |->
                         LegacyRecord(DictValue(chars, names, keys[k]), attrs)]
             total_score == SumSeq([k \in 1..Len(keys) |-> recs[k].credit])
             listed == SelectSeq([k \in 1..Len(keys) |-> MatchRecord(keys[k], recs[k].list)],
                                 LAMBDA r : r.list # "")
         IN  [raised |-> "",
              score |-> IF Len(keys) > 0 THEN 300 + (7 * total_score) \div Len(keys)
                        ELSE 600,
              records |-> listed]

\* _match_single_characteristic: matched when an attribute of the same name
\* matches the value (numerically for a quantitative characteristic, as
\* str(value) otherwise).  A characteristic without a name matches nothing.
MatchSingleCharacteristic(tender_char, attrs) ==
    /\ tender_char.name # ""
    /\ \E i \in 1..Len(attrs) :
          /\ attrs[i].standard_name = tender_char.name
          /\ IF tender_char.type = Quantitative
             THEN CheckNumericMatch(tender_char.value, attrs[i].standard_value)
             ELSE tender_char.value = attrs[i].standard_value

\* EnhancedAttributeMatcher.match_characteristics through
\* calculate_match_score: 1.0 without characteristics; else one details
\* record per characteristic, the required ones first, and the score 0.0
\* unless every required characteristic matched.  tender_char.get('name',
\* '').strip() raises AttributeError when the name is None.
EnhancedMatchScore(chars, attrs) ==
    IF chars = << >>
    THEN [raised |-> "", score |-> 1000, records |-> << >>]
    ELSE IF \E i \in 1..Len(chars) : chars[i].name = None
    THEN [raised |-> "AttributeError", score |-> 0, records |-> << >>]
    ELSE LET ordered == SelectSeq(chars, LAMBDA c : c.required)
                        \o SelectSeq(chars, LAMBDA c : ~c.required)
             hit(c) == MatchSingleCharacteristic(c, attrs)
             total_score == SumSeq([k \in 1..Len(ordered) |->
                               IF ~hit(ordered[k]) THEN 0
                               ELSE IF ordered[k].required THEN 1000 ELSE 500])
             is_suitable == \A k \in 1..Len(ordered) : ordered[k].required => hit(ordered[k])
         IN  [raised |-> "",
              score |-> IF is_suitable THEN total_score \div Len(chars) ELSE 0,
              records |-> [k \in 1..Len(ordered) |->
                             MatchRecord(ordered[k].name,
                                         IF hit(ordered[k]) THEN "matched" ELSE "missing")]]

\* calculate_match_score(tender_item, product)
CalculateMatchScore(chars, attrs, em) ==
    IF em THEN EnhancedMatchScore(chars, attrs) ELSE LegacyMatchScore(chars, attrs)

\* ------------------------------------------------------------------- state
\* self._okpd2_cache: a dict when the cache is enabled, else None.
Okpd2Cache(enable_okpd2_cache) ==
    [is_none |-> ~enable_okpd2_cache, entries |-> {}]

VARIABLES
    settings,                \* core.config.settings, the fields the matcher reads
    enable_semantic_search,  \* TenderMatchingService.enable_semantic_search
    semantic_threshold,      \* TenderMatchingService.semantic_threshold
    items,                   \* tender_request.items; the id of an item is its position
    tender_pc,               \* where process_tender stands
    mode,                    \* the mode process_tender chose
    batch_i,                 \* i of the batch loop of process_tender_parallel
    tasks,                   \* the match_tender_item coroutine of every item
    done_order,              \* the tasks dispatched last, in completion order
    all_matches,             \* item_matches / all_matches
    pauses,                  \* asyncio.sleep(0.1) calls begun
    result,                  \* the TenderMatchingResult returned, but for item_matches
    rs_pc, rs_args, rs_queries, rs_result,  \* direct calls of the resolver
    okpd2_cache,             \* self._okpd2_cache of the service
    rs_clock,                \* the time, in seconds
    rs_calls,                \* the times at which the resolver was called
    api,                     \* the requests of POST /match-item
    fn_pc, fn_in, fn_out     \* one direct call of a scoring function

vars == <<settings, enable_semantic_search, semantic_threshold, items, tender_pc, mode, batch_i, tasks,
          done_order, all_matches, pauses, result, rs_pc, rs_args, rs_queries, rs_result,
          okpd2_cache, rs_clock, rs_calls, api, fn_pc, fn_in, fn_out>>

apiVars == <<api>>

fnVars == <<fn_pc, fn_in, fn_out>>

resolverVars == <<rs_pc, rs_args, rs_queries, rs_result, okpd2_cache, rs_clock, rs_calls>>

Waiting == {"enh_lookup", "enh_semantic", "std_lookup"}

NoMatchYet == TenderItemMatch(0, << >>, << >>, "pending", "")

\* A coroutine not yet created.  cands: the products held across the await of
\* the semantic stage.  History of the coroutine: finds (the number of
\* candidates of each lookup), cand_codes (the codes of the candidates),
\* scored (the scoring loop was entered), enh_raised and std_raised (the
\* exception caught in the enhanced and in the standard algorithm), exc (the
\* exception the coroutine ended with), dropped_max (the highest score of a
\* scored product left out of the result).
PendingTask ==
    [pc |-> "pending", cands |-> << >>, match |-> NoMatchYet,
     finds |-> << >>, cand_codes |-> {}, scored |-> FALSE,
     enh_raised |-> "", std_raised |-> "", exc |-> "", dropped_max |-> Absent]

\* match_tender_item up to its first suspension point: the enhanced
\* algorithm when semantic search is on (term extraction, then the await of
\* find_products_enhanced), else the standard one (the await of the resolver).
StartTask(sem) ==
    [PendingTask EXCEPT !.pc = IF sem THEN "enh_lookup" ELSE "std_lookup"]

Returned(task, match) == [task EXCEPT !.pc = "returned", !.cands = << >>, !.match = match]

\* Fault: the enhanced algorithm is run again after its exception.
RetryEnhanced(task, raised) ==
    [task EXCEPT !.pc = "enh_lookup", !.cands = << >>, !.enh_raised = raised]

\* except Exception of _match_tender_item_enhanced: the standard algorithm
\* is awaited, which runs up to the await of the resolver.
FallBackToStandard(task, raised) ==
    [task EXCEPT !.pc = "std_lookup", !.cands = << >>, !.enh_raised = raised]

\* _match_tender_item_enhanced from stage 4 on.
AfterEnhancedScoring(task, id, item, cands, max_matched) ==
    LET s == EnhancedScoring(id, item, cands, max_matched)
        t == [task EXCEPT !.scored = TRUE]
    IN  IF s.raised # "" THEN FallBackToStandard(t, s.raised)
        ELSE Returned([t EXCEPT !.dropped_max = DroppedMax(s.scores, s.match.matched_products)],
                      s.match)

Seen(task, cands) ==
    [task EXCEPT !.finds = Append(@, Len(cands)),
                 !.cand_codes = @ \cup {Product(cands[k].p).okpd2_code : k \in 1..Len(cands)}]

\* _match_tender_item_enhanced from the answer of find_products_enhanced to
\* the next suspension point or the return.
AfterEnhancedLookup(task, id, item, cands, max_matched) ==
    LET t == Seen(task, cands)
    IN  IF cands = << >> THEN Returned(t, NoMatches(id, item))
        ELSE IF Len(cands) > SemanticStageMin
             THEN [t EXCEPT !.pc = "enh_semantic", !.cands = cands]
             ELSE AfterEnhancedScoring(t, id, item, cands, max_matched)

\* Fault: _match_tender_item_standard without its except clause; the
\* exception ends the coroutine.
EscapesStandard(task, id, item, raised) ==
    [task EXCEPT !.pc = "raised", !.cands = << >>, !.exc = raised]

\* except Exception as e of _match_tender_item_standard: the exception
\* becomes the item's result.
CaughtInStandard(task, id, item, raised) == Returned(task, ErrorMatch(id, item, raised))

\* _match_tender_item_standard from the answer of the resolver to the return.
AfterStandardLookup(task, id, item, cands, em, max_matched) ==
    LET s == StandardScoring(id, item, cands, em, max_matched)
        t == [Seen(task, cands) EXCEPT !.scored = @ \/ (cands # << >>),
                                       !.std_raised = s.raised]
    IN  IF s.raised # "" THEN CaughtInStandard(t, id, item, s.raised)
        ELSE Returned([t EXCEPT !.dropped_max = DroppedMax(s.scores, s.match.matched_products)],
                      s.match)

\* The answers of the collaborators to one run of match_tender_item: of
\* the store to find_products_enhanced, of the semantic model, of the store
\* to the resolver's query.
AnswerChoices == StoreOutcomes \X SemanticProfiles \X BOOLEAN

\* match_tender_item of one item on its own, the collaborators answering a.
MatchAlone(id, item, sem, threshold, max_matched, min_products, a) ==
    LET t0 == StartTask(sem)
        t1 == IF t0.pc = "enh_lookup"
              THEN AfterEnhancedLookup(t0, id, item,
                       FindProductsEnhanced(item.okpd2Code, item.terms, EnhancedLimit, a[1]),
                       max_matched)
              ELSE t0
        t2 == IF t1.pc = "enh_semantic"
              THEN AfterEnhancedScoring(t1, id, item,
                                        SemanticStage(t1.cands, a[2], threshold),
                                        max_matched)
              ELSE t1
        t3 == IF t2.pc = "std_lookup"
              THEN AfterStandardLookup(t2, id, item,
                       FindProductsByOkpd2WithFallback(item.okpd2Code, min_products,
                                                       max_matched * 10, a[3]),
                       sem, max_matched)
              ELSE t2
    IN  t3.match

\* The results an item at position id can get on its own under the default
\* settings, by the item, enable_semantic_search and semantic_threshold.
AloneMatches ==
    [id \in 1..MaxItems |-> [item \in ItemPool |-> [sem \in BOOLEAN |->
        [threshold \in SemanticThresholds |->
            {MatchAlone(id, item, sem, threshold, DefaultMaxMatched, DefaultMinProducts, a) :
                a \in AnswerChoices}]]]]

\* Fault: the threshold itself already selects the parallel mode.
UseParallelFromThreshold(cfg, items_count) ==
    cfg.enable_parallel_processing /\ items_count >= cfg.max_parallel_items

\* process_tender: parallel when enabled and more items than max_parallel_items
UseParallel(cfg, items_count) ==
    cfg.enable_parallel_processing /\ items_count > cfg.max_parallel_items

\* Fault: one batch of all the items.
BatchSizeUnbounded(cfg, n) == n

\* batch_size = min(settings.max_parallel_items, len(valid_items))
BatchSize(cfg, n) == Min(cfg.max_parallel_items, n)

\* batch = valid_items[i:i + batch_size], as item positions
Batch(i, size, n) == (i + 1)..Min(i + size, n)

\* Fault: the outcomes are taken as the tasks complete (as_completed).
GatherAsCompleted(ts, batch, order) ==
    [j \in 1..Len(order) |->
        [id |-> order[j], exc |-> ts[order[j]].exc, match |-> ts[order[j]].match]]

\* asyncio.gather(*tasks, return_exceptions=True): the outcome of every
\* task, a result or the exception it ended with, in the order of the tasks
\* given, whatever the order they completed in.
Gather(ts, batch, order) ==
    LET first == CHOOSE k \in batch : \A j \in batch : k <= j
    IN  [j \in 1..Cardinality(batch) |->
            [id |-> first + j - 1, exc |-> ts[first + j - 1].exc,
             match |-> ts[first + j - 1].match]]

\* Fault: one failed item fails its whole batch.
BatchEntriesAllOrNothing(its, outcomes) ==
    [j \in 1..Len(outcomes) |->
        IF \E i \in 1..Len(outcomes) :
              outcomes[i].exc # "" \/ outcomes[i].match.processing_status = "error"
        THEN ErrorMatch(outcomes[j].id, its[outcomes[j].id], "batch failed")
        ELSE outcomes[j].match]

\* for idx, result in enumerate(batch_results): an exception becomes an
\* error entry of its item, a result is appended as it is.
BatchEntries(its, outcomes) ==
    [j \in 1..Len(outcomes) |->
        IF outcomes[j].exc # ""
        THEN ErrorMatch(outcomes[j].id, its[outcomes[j].id], outcomes[j].exc)
        ELSE outcomes[j].match]

TotalSuppliers(ms) ==
    SumSeq([k \in 1..Len(ms) |->
              SumSeq([j \in 1..Len(ms[k].matched_products) |->
                        ms[k].matched_products[j].total_suppliers])])

\* Fault: the partial band without its lower limit.
BandsPartialUnbounded(ms) ==
    [items_with_perfect_match |-> Cardinality({k \in 1..Len(ms) : ms[k].best_match_score >= 900}),
     items_with_good_match |->
        Cardinality({k \in 1..Len(ms) : 700 <= ms[k].best_match_score /\ ms[k].best_match_score < 900}),
     items_with_partial_match |-> Cardinality({k \in 1..Len(ms) : ms[k].best_match_score < 700}),
     items_without_match |-> Cardinality({k \in 1..Len(ms) : ms[k].best_match_score = 0})]

\* The band counters of the summary, best_match_score in thousandths.
Bands(ms) ==
    [items_with_perfect_match |-> Cardinality({k \in 1..Len(ms) : ms[k].best_match_score >= 900}),
     items_with_good_match |->
        Cardinality({k \in 1..Len(ms) : 700 <= ms[k].best_match_score /\ ms[k].best_match_score < 900}),
     items_with_partial_match |->
        Cardinality({k \in 1..Len(ms) : 500 <= ms[k].best_match_score /\ ms[k].best_match_score < 700}),
     items_without_match |-> Cardinality({k \in 1..Len(ms) : ms[k].best_match_score = 0})]

\* The TenderMatchingResult of process_tender_sequential; its item_matches
\* is the list all_matches.
SequentialResult(its, ms) ==
    [total_items |-> Cardinality({k \in 1..Len(its) : its[k].okpd2Code # << >>}),
     matched_items |-> Cardinality({k \in 1..Len(ms) : ms[k].total_matches > 0}),
     total_suppliers |-> TotalSuppliers(ms),
     bands |-> Bands(ms),
     items_with_errors |-> Absent]

\* The TenderMatchingResult of process_tender_parallel
ParallelResult(its, ms) ==
    [total_items |-> Len(its),
     matched_items |-> Cardinality({k \in 1..Len(ms) : ms[k].total_matches > 0}),
     total_suppliers |-> TotalSuppliers(ms),
     bands |-> Bands(ms),
     items_with_errors |-> Cardinality({k \in 1..Len(ms) : ms[k].processing_status = "error"})]

NoResult ==
    [total_items |-> 0, matched_items |-> 0, total_suppliers |-> 0,
     bands |-> Bands(<< >>), items_with_errors |-> Absent]

\* The configurations: parallel processing enabled with every
\* max_parallel_items of 0..MaxParallel, and disabled with max_parallel_items 1.
SettingsDomain ==
    {c \in [enable_parallel_processing : BOOLEAN,
            max_parallel_items : 0..MaxParallel,
            max_matched_products_per_item : {DefaultMaxMatched},
            min_products_for_matching : {DefaultMinProducts}] :
        c.enable_parallel_processing \/ c.max_parallel_items = 1}

Init ==
    /\ settings \in SettingsDomain
    /\ enable_semantic_search \in BOOLEAN
    /\ semantic_threshold \in IF enable_semantic_search THEN SemanticThresholds
                              ELSE {SemanticThreshold}
    /\ items \in SeqsUpTo(ItemPool, MaxItems)
    /\ tender_pc = "idle"
    /\ mode = "none"
    /\ batch_i = 0
    /\ tasks = [k \in 1..Len(items) |-> PendingTask]
    /\ done_order = << >>
    /\ all_matches = << >>
    /\ pauses = 0
    /\ result = NoResult
    /\ rs_pc = "idle"
    /\ rs_args = [okpd2_code |-> << >>, min_results |-> 0, max_results |-> 0]
    /\ rs_queries = << >>
    /\ rs_result = << >>
    /\ okpd2_cache = Okpd2Cache(TRUE)
    /\ rs_clock = 0
    /\ rs_calls = << >>
    /\ api = << >>
    /\ fn_pc = "idle"
    /\ fn_in = << >>
    /\ fn_out = << >>

\* ----------------------------------------------------------------- actions
Dispatch(ts, batch) ==
    [k \in DOMAIN ts |-> IF k \in batch THEN StartTask(enable_semantic_search) ELSE ts[k]]

\* The coroutines whose outcomes the caller has taken are finished.
Collected(ts, batch) ==
    [k \in DOMAIN ts |->
        IF k \in batch THEN [ts[k] EXCEPT !.pc = "collected", !.match = NoMatchYet]
        ELSE ts[k]]

Finished(task) == task.pc \in {"returned", "raised"}

\* process_tender up to the first suspension point
ProcessTender ==
    /\ tender_pc = "idle"
    /\ IF UseParallel(settings, Len(items))
       THEN /\ mode' = "parallel"
            /\ IF BatchSize(settings, Len(items)) = 0
               THEN \* range(0, len(valid_items), 0) raises ValueError
                    /\ tender_pc' = "raised"
                    /\ UNCHANGED tasks
               ELSE /\ tender_pc' = "par_gather"
                    /\ tasks' = Dispatch(tasks, Batch(0, BatchSize(settings, Len(items)),
                                                      Len(items)))
            /\ UNCHANGED result
       ELSE /\ mode' = "sequential"
            /\ IF items = << >>
               THEN /\ tender_pc' = "done"
                    /\ result' = SequentialResult(items, << >>)
                    /\ UNCHANGED tasks
               ELSE /\ tender_pc' = "seq"
                    /\ tasks' = Dispatch(tasks, {1})
                    /\ UNCHANGED result
    /\ UNCHANGED <<settings, enable_semantic_search, semantic_threshold, items, batch_i, done_order,
                   all_matches, pauses>>
    /\ UNCHANGED <<resolverVars, apiVars, fnVars>>

\* A coroutine went on from an answer to its next suspension point or its end.
TaskStep(k, t) ==
    /\ tasks' = [tasks EXCEPT ![k] = t]
    /\ done_order' = IF Finished(t) THEN Append(done_order, k) ELSE done_order
    /\ UNCHANGED <<settings, enable_semantic_search, semantic_threshold, items, tender_pc, mode, batch_i,
                   all_matches, pauses, result>>
    /\ UNCHANGED <<resolverVars, apiVars, fnVars>>

\* The store answers find_products_enhanced of item k.
EnhLookupReturn(k) ==
    /\ tasks[k].pc = "enh_lookup"
    /\ \E outcome \in StoreOutcomes :
         TaskStep(k, AfterEnhancedLookup(
                         tasks[k], k, items[k],
                         FindProductsEnhanced(items[k].okpd2Code, items[k].terms,
                                              EnhancedLimit, outcome),
                         settings.max_matched_products_per_item))

\* The executor answers compute_similarities of item k.
SemanticReturn(k) ==
    /\ tasks[k].pc = "enh_semantic"
    /\ \E profile \in SemanticProfiles :
         TaskStep(k, AfterEnhancedScoring(
                         tasks[k], k, items[k],
                         SemanticStage(tasks[k].cands, profile, semantic_threshold),
                         settings.max_matched_products_per_item))

\* The store answers the resolver's query of item k.
StdLookupReturn(k) ==
    /\ tasks[k].pc = "std_lookup"
    /\ \E ok \in BOOLEAN :
         TaskStep(k, AfterStandardLookup(
                         tasks[k], k, items[k],
                         FindProductsByOkpd2WithFallback(
                             items[k].okpd2Code, settings.min_products_for_matching,
                             settings.max_matched_products_per_item * 10, ok),
                         enable_semantic_search,
                         settings.max_matched_products_per_item))

\* process_tender_sequential: the await of match_tender_item of the current
\* item ended; an exception of it leaves process_tender, else the result is
\* appended and the next item is awaited or the result is built.
SeqCollect ==
    /\ tender_pc = "seq"
    /\ LET cur == Len(all_matches) + 1
           ms == Append(all_matches, tasks[cur].match)
       IN  /\ Finished(tasks[cur])
           /\ IF tasks[cur].pc = "raised"
              THEN /\ tender_pc' = "raised"
                   /\ tasks' = Collected(tasks, {cur})
                   /\ UNCHANGED <<all_matches, result, done_order>>
              ELSE /\ all_matches' = ms
                   /\ IF cur < Len(items)
                      THEN /\ tasks' = Dispatch(Collected(tasks, {cur}), {cur + 1})
                           /\ done_order' = << >>
                           /\ UNCHANGED <<tender_pc, result>>
                      ELSE /\ tender_pc' = "done"
                           /\ result' = SequentialResult(items, ms)
                           /\ tasks' = Collected(tasks, {cur})
                           /\ UNCHANGED done_order
    /\ UNCHANGED <<settings, enable_semantic_search, semantic_threshold, items, mode, batch_i, pauses>>
    /\ UNCHANGED <<resolverVars, apiVars, fnVars>>

\* process_tender_parallel: gather of the current batch returned; its
\* entries are appended, then the pause begins or the result is built.
ParCollect ==
    /\ tender_pc = "par_gather"
    /\ LET size == BatchSize(settings, Len(items))
           batch == Batch(batch_i, size, Len(items))
           ms == all_matches \o BatchEntries(items, Gather(tasks, batch, done_order))
       IN  /\ \A k \in batch : Finished(tasks[k])
           /\ all_matches' = ms
           /\ tasks' = Collected(tasks, batch)
           /\ IF batch_i + size < Len(items)
              THEN /\ tender_pc' = "par_sleep"
                   /\ pauses' = pauses + 1
                   /\ UNCHANGED result
              ELSE /\ tender_pc' = "done"
                   /\ result' = ParallelResult(items, ms)
                   /\ UNCHANGED pauses
    /\ UNCHANGED <<settings, enable_semantic_search, semantic_threshold, items, mode, batch_i, done_order>>
    /\ UNCHANGED <<resolverVars, apiVars, fnVars>>

\* process_tender_parallel: the pause is over, the next batch is dispatched.
ParWake ==
    /\ tender_pc = "par_sleep"
    /\ LET size == BatchSize(settings, Len(items))
       IN  /\ batch_i' = batch_i + size
           /\ tasks' = Dispatch(tasks, Batch(batch_i + size, size, Len(items)))
    /\ tender_pc' = "par_gather"
    /\ done_order' = << >>
    /\ UNCHANGED <<settings, enable_semantic_search, semantic_threshold, items, mode, all_matches, pauses,
                   result>>
    /\ UNCHANGED <<resolverVars, apiVars, fnVars>>

Next ==
    \/ ProcessTender
    \/ \E k \in 1..Len(items) : EnhLookupReturn(k)
    \/ \E k \in 1..Len(items) : SemanticReturn(k)
    \/ \E k \in 1..Len(items) : StdLookupReturn(k)
    \/ SeqCollect
    \/ ParCollect
    \/ ParWake

Spec == Init /\ [][Next]_vars

\* ------------------------------------------------ one call of the resolver
DefaultSettings ==
    [enable_parallel_processing |-> TRUE, max_parallel_items |-> MaxParallel,
     max_matched_products_per_item |-> DefaultMaxMatched,
     min_products_for_matching |-> DefaultMinProducts]

\* The arguments of a call: a code of the catalog, a class, or none; the
\* min_results and max_results of the callers and small ones.
ResolverArgs ==
    [okpd2_code : {CodePen, CodeInk, <<"3">>, NoCode},
     min_results : {1, DefaultMinProducts},
     max_results : (1..MaxResultsArg) \cup {DefaultMaxMatched * 10}]

InitResolver ==
    /\ settings = DefaultSettings
    /\ enable_semantic_search = FALSE
    /\ semantic_threshold = SemanticThreshold
    /\ items = << >>
    /\ tender_pc = "idle"
    /\ mode = "none"
    /\ batch_i = 0
    /\ tasks = << >>
    /\ done_order = << >>
    /\ all_matches = << >>
    /\ pauses = 0
    /\ result = NoResult
    /\ rs_pc = "ready"
    /\ rs_args \in ResolverArgs
    /\ rs_queries = << >>
    /\ rs_result = << >>
    /\ \E enable_okpd2_cache \in BOOLEAN : okpd2_cache = Okpd2Cache(enable_okpd2_cache)
    /\ rs_clock = 0
    /\ rs_calls = << >>
    /\ api = << >>
    /\ fn_pc = "idle"
    /\ fn_in = << >>
    /\ fn_out = << >>

tenderVars == <<settings, enable_semantic_search, semantic_threshold, items, tender_pc, mode, batch_i, tasks,
                done_order, all_matches, pauses, result>>

\* find_products_by_okpd2_with_fallback up to the await of the store: the
\* query is issued whatever the cache holds, and the cache is left alone.
ResolverCall ==
    /\ rs_pc = "ready"
    /\ Len(rs_calls) < MaxResolves
    /\ rs_pc' = "awaiting"
    /\ rs_calls' = Append(rs_calls, rs_clock)
    /\ rs_queries' = Append(rs_queries,
                            ResolverQuery(rs_args.okpd2_code, rs_args.min_results,
                                          rs_args.max_results))
    /\ UNCHANGED <<rs_args, rs_result, okpd2_cache, rs_clock>>
    /\ UNCHANGED <<tenderVars, apiVars, fnVars>>

\* The store answers; the resolver returns the answer.
ResolverReturn ==
    /\ rs_pc = "awaiting"
    /\ \E ok \in BOOLEAN :
         rs_result' = FindProducts(rs_queries[Len(rs_queries)].filter,
                                   rs_queries[Len(rs_queries)].limit, ok)
    /\ rs_pc' = "returned"
    /\ UNCHANGED <<rs_args, rs_queries, okpd2_cache, rs_clock, rs_calls>>
    /\ UNCHANGED <<tenderVars, apiVars, fnVars>>

\* Time passes between two calls of the resolver with the same code: a
\* second, or the time to live of a cache entry.
ResolverWait ==
    /\ rs_pc = "returned"
    /\ Len(rs_calls) < MaxResolves
    /\ \E d \in {1, Okpd2CacheTtl} : rs_clock' = rs_clock + d
    /\ rs_pc' = "ready"
    /\ UNCHANGED <<rs_args, rs_queries, rs_result, okpd2_cache, rs_calls>>
    /\ UNCHANGED <<tenderVars, apiVars, fnVars>>

NextResolver == ResolverCall \/ ResolverReturn \/ ResolverWait

SpecResolver == InitResolver /\ [][NextResolver]_vars

\* --------------------------------------------------- POST /match-item
\* The items of the requests: match_single_item rejects an item without a
\* code.  An item of the tenders with few products under its code, and one
\* of the class of the bulk of the catalog.
ApiItemPool ==
    {[okpd2Code |-> CodePen, terms |-> {"pen"}, chars |-> "named", price |-> "ok"],
     [okpd2Code |-> CodeBox, terms |-> {"box"}, chars |-> "none", price |-> "ok"]}

\* The max_results of a request: None, or a number.
ApiMaxResults == {Absent, 1}

\* A request not yet handled.
NewRequest(max_results) ==
    [pc |-> "new", max_results |-> max_results, original_max_results |-> Absent]

\* Requests in flight in one process: each has a service of its own, all
\* with the same enable_semantic_search, and all share settings.
InitApi ==
    /\ settings = DefaultSettings
    /\ enable_semantic_search \in BOOLEAN
    /\ semantic_threshold = SemanticThreshold
    /\ items \in [1..MaxRequests -> ApiItemPool]
    /\ tender_pc = "idle"
    /\ mode = "none"
    /\ batch_i = 0
    /\ tasks = [k \in 1..MaxRequests |-> PendingTask]
    /\ done_order = << >>
    /\ all_matches = << >>
    /\ pauses = 0
    /\ result = NoResult
    /\ rs_pc = "idle"
    /\ rs_args = [okpd2_code |-> << >>, min_results |-> 0, max_results |-> 0]
    /\ rs_queries = << >>
    /\ rs_result = << >>
    /\ okpd2_cache = Okpd2Cache(TRUE)
    /\ rs_clock = 0
    /\ rs_calls = << >>
    /\ api \in [1..MaxRequests -> {NewRequest(m) : m \in ApiMaxResults}]
    /\ fn_pc = "idle"
    /\ fn_in = << >>
    /\ fn_out = << >>

\* match_single_item up to the await of match_tender_item: the setting is
\* saved and overwritten, the coroutine runs to its first suspension point.
ApiMatchSingleItem(r) ==
    /\ api[r].pc = "new"
    /\ api' = [api EXCEPT ![r].pc = "awaiting",
                          ![r].original_max_results = settings.max_matched_products_per_item]
    /\ settings' = IF api[r].max_results # Absent
                   THEN [settings EXCEPT !.max_matched_products_per_item = api[r].max_results]
                   ELSE settings
    /\ tasks' = [tasks EXCEPT ![r] = StartTask(enable_semantic_search)]
    /\ UNCHANGED <<enable_semantic_search, semantic_threshold, items, tender_pc, mode, batch_i, done_order,
                   all_matches, pauses, result>>
    /\ UNCHANGED <<resolverVars, fnVars>>

\* match_single_item from the return of match_tender_item: the finally
\* clause writes the saved value back.
ApiReturn(r) ==
    /\ api[r].pc = "awaiting"
    /\ Finished(tasks[r])
    /\ api' = [api EXCEPT ![r].pc = "done"]
    /\ settings' = [settings EXCEPT
                       !.max_matched_products_per_item = api[r].original_max_results]
    /\ tasks' = Collected(tasks, {r})
    /\ UNCHANGED <<enable_semantic_search, semantic_threshold, items, tender_pc, mode, batch_i, done_order,
                   all_matches, pauses, result>>
    /\ UNCHANGED <<resolverVars, fnVars>>

NextApi ==
    \/ \E r \in 1..MaxRequests : ApiMatchSingleItem(r)
    \/ \E r \in 1..MaxRequests : EnhLookupReturn(r)
    \/ \E r \in 1..MaxRequests : SemanticReturn(r)
    \/ \E r \in 1..MaxRequests : StdLookupReturn(r)
    \/ \E r \in 1..MaxRequests : ApiReturn(r)

SpecApi == InitApi /\ [][NextApi]_vars

\* ------------------------------------- one call of calculate_match_score
IdleTender ==
    /\ settings = DefaultSettings
    /\ enable_semantic_search = FALSE
    /\ semantic_threshold = SemanticThreshold
    /\ items = << >>
    /\ tender_pc = "idle"
    /\ mode = "none"
    /\ batch_i = 0
    /\ tasks = << >>
    /\ done_order = << >>
    /\ all_matches = << >>
    /\ pauses = 0
    /\ result = NoResult
    /\ rs_pc = "idle"
    /\ rs_args = [okpd2_code |-> << >>, min_results |-> 0, max_results |-> 0]
    /\ rs_queries = << >>
    /\ rs_result = << >>
    /\ okpd2_cache = Okpd2Cache(TRUE)
    /\ rs_clock = 0
    /\ rs_calls = << >>
    /\ api = << >>

\* The characteristics of the tender item, the standardized attributes of
\* the product, and whether the enhanced matcher is in use.
InitMatchScore ==
    /\ IdleTender
    /\ fn_pc = "ready"
    /\ fn_in \in [chars : SeqsUpTo(CharPool, MaxChars), attrs : AttrLists, em : BOOLEAN]
    /\ fn_out = << >>

CalculateMatchScoreCall ==
    /\ fn_pc = "ready"
    /\ fn_pc' = "done"
    /\ fn_out' = CalculateMatchScore(fn_in.chars, fn_in.attrs, fn_in.em)
    /\ UNCHANGED fn_in
    /\ UNCHANGED <<tenderVars, resolverVars, apiVars>>

NextMatchScore == CalculateMatchScoreCall

SpecMatchScore == InitMatchScore /\ [][NextMatchScore]_vars

\* ----------------------------------- one supplier of the supplier loop
\* The score of the product, the best price of the supplier (Absent: no
\* offer has a price), the unit price of the tender item and
\* settings.price_tolerance_percent.
SupplierScoreArgs ==
    [score : {0, 370, 500, 1000, 2950},
     best_price : {Absent, 0, 60, 90, 120, 150},
     tender_price : {0, TenderAmount},
     tolerance : {0, PriceTolerancePercent}]

InitSupplierScore ==
    /\ IdleTender
    /\ fn_pc = "ready"
    /\ fn_in \in SupplierScoreArgs
    /\ fn_out = 0

SupplierScoreCall ==
    /\ fn_pc = "ready"
    /\ fn_pc' = "done"
    /\ fn_out' = SupplierScore(fn_in.score, fn_in.best_price, fn_in.tender_price,
                               fn_in.tolerance)
    /\ UNCHANGED fn_in
    /\ UNCHANGED <<tenderVars, resolverVars, apiVars>>

NextSupplierScore == SupplierScoreCall

SpecSupplierScore == InitSupplierScore /\ [][NextSupplierScore]_vars

\* ------------------------------------------- numeric condition matching
\* A condition text is a sequence of tokens: a number, or one of the
\* operator signs ">=" (the sign for "not less"), "<=" (the sign for "not
\* greater"), ">", "<", the conjunction "and", or any other word.
Num(n) == [op |-> "num", val |-> n]
Op(s) == [op |-> s, val |-> 0]

IsNum(text, i) == i \in 1..Len(text) /\ text[i].op = "num"
IsOp(text, i, s) == i \in 1..Len(text) /\ text[i].op = s

\* The five tokens from position i on are: lo sign, number, "and", hi sign, number
IsBetweenAt(text, i, lo, hi) ==
    /\ IsOp(text, i, lo) /\ IsNum(text, i + 1) /\ IsOp(text, i + 2, "and")
    /\ IsOp(text, i + 3, hi) /\ IsNum(text, i + 4)

\* TenderMatchingService.parse_numeric_condition: the patterns are anchored
\* at both ends (re.match with ^ and $), so the whole text has to be of
\* the form; anything else is 'string'.
ParseNumericCondition(value) ==
    LET between(lo, hi) == Len(value) = 5 /\ IsBetweenAt(value, 1, lo, hi)
        single(s) == Len(value) = 2 /\ IsOp(value, 1, s) /\ IsNum(value, 2)
    IN  CASE value = << >> -> [operator |-> "string", val1 |-> Absent, val2 |-> Absent]
          [] between(">=", "<") ->
                 [operator |-> "between_ge_lt", val1 |-> value[2].val, val2 |-> value[5].val]
          [] between(">", "<=") ->
                 [operator |-> "between_gt_le", val1 |-> value[2].val, val2 |-> value[5].val]
          [] between(">=", "<=") ->
                 [operator |-> "between_ge_le", val1 |-> value[2].val, val2 |-> value[5].val]
          [] single(">=") -> [operator |-> "gte", val1 |-> value[2].val, val2 |-> Absent]
          [] single("<=") -> [operator |-> "lte", val1 |-> value[2].val, val2 |-> Absent]
          [] single(">") -> [operator |-> "gt", val1 |-> value[2].val, val2 |-> Absent]
          [] single("<") -> [operator |-> "lt", val1 |-> value[2].val, val2 |-> Absent]
          [] Len(value) = 1 /\ IsNum(value, 1) ->
                 [operator |-> "eq", val1 |-> value[1].val, val2 |-> Absent]
          [] OTHER -> [operator |-> "string", val1 |-> Absent, val2 |-> Absent]

\* TenderMatchingService.check_numeric_match on condition texts
CheckNumericCondition(tender_value, product_value) ==
    LET t == ParseNumericCondition(tender_value)
        p == ParseNumericCondition(product_value)
    IN  IF tender_value = << >> \/ product_value = << >> THEN FALSE
        ELSE IF t.operator = "string" \/ p.operator = "string"
        THEN tender_value = product_value
        ELSE CASE t.operator = "eq" -> p.val1 = t.val1
               [] t.operator = "gte" -> p.val1 >= t.val1
               [] t.operator = "lte" -> p.val1 <= t.val1
               [] t.operator = "gt" -> p.val1 > t.val1
               [] t.operator = "lt" -> p.val1 < t.val1
               [] OTHER ->
                    CASE p.operator = "eq" ->
                           CASE t.operator = "between_ge_lt" ->
                                    t.val1 <= p.val1 /\ p.val1 < t.val2
                             [] t.operator = "between_gt_le" ->
                                    t.val1 < p.val1 /\ p.val1 <= t.val2
                             [] OTHER -> t.val1 <= p.val1 /\ p.val1 <= t.val2
                      [] p.operator = "gte" -> p.val1 >= t.val1
                      \* `product_val1 <= tender_val2 if tender_val2 else tender_val1`:
                      \* with an upper bound of 0 the truth value of the lower bound
                      [] p.operator = "lte" ->
                             IF t.val2 # 0 THEN p.val1 <= t.val2 ELSE t.val1 # 0
                      [] OTHER -> FALSE

\* EnhancedAttributeMatcher._parse_numeric_condition: the patterns are
\* searched anywhere in the text (re.search), in this order, the first one
\* found decides; without any, the first number of the text with 'eq'.
ParseNumericConditionEnhanced(value) ==
    LET at(s) == {i \in 1..Len(value) : IsOp(value, i, s) /\ IsNum(value, i + 1)}
        first(S) == CHOOSE i \in S : \A j \in S : i <= j
        ranges == {i \in 1..Len(value) : IsBetweenAt(value, i, ">", "<=")}
        nums == {i \in 1..Len(value) : IsNum(value, i)}
        one(operator, S) == [operator |-> operator, numbers |-> <<value[first(S) + 1].val>>]
    IN  CASE ranges # {} ->
                 [operator |-> "range",
                  numbers |-> <<value[first(ranges) + 1].val, value[first(ranges) + 4].val>>]
          [] at(">=") # {} -> one("gte", at(">="))
          [] at("<=") # {} -> one("lte", at("<="))
          [] at(">") # {} -> one("gt", at(">"))
          [] at("<") # {} -> one("lt", at("<"))
          [] nums # {} -> [operator |-> "eq", numbers |-> <<value[first(nums)].val>>]
          [] OTHER -> [operator |-> "eq", numbers |-> << >>]

\* thresholds['numeric_tolerance'] = 0.1, in percent
NumericTolerancePercent == 10

\* EnhancedAttributeMatcher._match_numeric_value, for equal units: 'matched'
MatchNumericValue(tender_value, product_value) ==
    LET t == ParseNumericConditionEnhanced(tender_value)
        p == ParseNumericConditionEnhanced(product_value)
        tender_num == t.numbers[1]
        product_num == p.numbers[1]
        abs_diff == IF product_num >= tender_num THEN product_num - tender_num
                    ELSE tender_num - product_num
    IN  IF t.numbers = << >> \/ p.numbers = << >> THEN FALSE
        ELSE CASE t.operator = "gte" -> product_num >= tender_num
               [] t.operator = "lte" -> product_num <= tender_num
               [] t.operator = "gt" -> product_num > tender_num
               [] t.operator = "lt" -> product_num < tender_num
               [] t.operator = "range" ->
                      t.numbers[1] <= product_num /\ product_num <= t.numbers[2]
               \* diff = abs(p - t) / t if t != 0 else 0; matched = diff <= tolerance
               [] OTHER -> tender_num = 0
                           \/ 100 * abs_diff <= NumericTolerancePercent * tender_num

\* The numbers a condition text is written with.
Numbers == {0, 9, 10, 11, 12}

\* The texts of a tender characteristic's value: a bare number, a one-sided
\* condition, the three two-sided forms, a word.
TenderTexts ==
    {<<Num(v)>> : v \in Numbers}
    \cup {<<Op(s), Num(v)>> : s \in {">=", "<="}, v \in Numbers}
    \cup {<<Op(lo[1]), Num(x), Op("and"), Op(lo[2]), Num(y)>> :
              lo \in {<<">=", "<">>, <<">", "<=">>, <<">=", "<=">>},
              x \in {0, 9, 10}, y \in {10, 11}}
    \cup {<<Op("word")>>}

\* The texts of a product attribute's value
ProductTexts ==
    {<<Num(c)>> : c \in Numbers}
    \cup {<<Op(s), Num(c)>> : s \in {">=", "<="}, c \in {9, 11}}
    \cup {<< >>, <<Op("word")>>}

InitNumeric ==
    /\ IdleTender
    /\ fn_pc = "ready"
    /\ fn_in \in [tender_value : TenderTexts, product_value : ProductTexts]
    /\ fn_out = [legacy |-> FALSE, enhanced |-> FALSE]

\* One comparison of the two values by the matcher in use: the legacy
\* scoring calls check_numeric_match, the enhanced matcher
\* _match_numeric_value.
NumericMatchCall ==
    /\ fn_pc = "ready"
    /\ fn_pc' = "done"
    /\ fn_out' = [legacy |-> CheckNumericCondition(fn_in.tender_value, fn_in.product_value),
                  enhanced |-> MatchNumericValue(fn_in.tender_value, fn_in.product_value)]
    /\ UNCHANGED fn_in
    /\ UNCHANGED <<tenderVars, resolverVars, apiVars>>

NextNumeric == NumericMatchCall

SpecNumeric == InitNumeric /\ [][NextNumeric]_vars

\* ------------------------------------------------------ ResultTransformer
\* transform_to_v2, the summary: a summary without the key
\* items_with_errors gets the value 0.
SummaryV2(r) ==
    [r EXCEPT !.items_with_errors = IF @ = Absent THEN 0 ELSE @]

\* ------------------------------------------------------------- properties
Terminal == {"success", "no_matches", "error"}

\* The items of the batch of item k
BatchOf(k) == (k - 1) \div settings.max_parallel_items

\* The search patterns of a code, narrowest first: the code itself, then
\* the code cut at each separator, the longer cut first.
SearchPatterns(code) ==
    LET cuts == {i \in 1..Len(code) : code[i] = "."}
        Nth[n \in 0..Cardinality(cuts)] ==
            IF n = 0 THEN Len(code) + 1
            ELSE CHOOSE c \in cuts : c < Nth[n - 1] /\ \A d \in cuts : d < Nth[n - 1] => d <= c
    IN  [n \in 1..(Cardinality(cuts) + 1) |-> SubSeq(code, 1, Nth[n - 1] - 1)]

\* C1: in parallel mode the k-th entry of item_matches is the result of the
\* k-th input item, whatever the order the tasks of a batch completed in, and
\* the finished tender has one entry per input item.
C1_ParallelKeepsInputOrder ==
    mode = "parallel" =>
        /\ Len(all_matches) <= Len(items)
        /\ \A k \in 1..Len(all_matches) :
              /\ all_matches[k].tender_item_id = k
              /\ all_matches[k].okpd2_code = items[k].okpd2Code
              /\ all_matches[k].processing_status \in Terminal
        /\ tender_pc = "done" => Len(all_matches) = Len(items)

\* A batch of two was collected whose second task completed first.
C1_Witness ==
    /\ mode = "parallel"
    /\ Len(done_order) = 2
    /\ done_order[1] > done_order[2]
    /\ Len(all_matches) >= done_order[1]
    /\ all_matches[done_order[2]].processing_status # all_matches[done_order[1]].processing_status

\* C2: in parallel mode an item whose matching raised gets status error with
\* the exception's message, and every item has a result that its own
\* matching, run alone, produces: no entry is an error but that of an item
\* whose own matching raised.
C2_SiblingsUnaffected ==
    mode = "parallel" =>
        \A k \in 1..Min(Len(all_matches), Len(items)) :
            /\ all_matches[k] \in AloneMatches[k][items[k]][enable_semantic_search][semantic_threshold]
            /\ all_matches[k].processing_status = "error" <=> tasks[k].std_raised # ""
            /\ tasks[k].std_raised # "" => all_matches[k].error_message = tasks[k].std_raised

\* A batch held an item that failed and a sibling that succeeded with products.
C2_Witness ==
    /\ mode = "parallel"
    /\ settings.max_parallel_items > 0
    /\ \E j, k \in 1..Len(all_matches) :
          /\ BatchOf(j) = BatchOf(k)
          /\ all_matches[k].processing_status = "error"
          /\ tasks[k].std_raised # ""
          /\ all_matches[j].processing_status = "success"
          /\ all_matches[j].best_match_score > 0

\* The items whose match_tender_item has ended, and what it returned.
Ended == {k \in 1..Len(items) : tasks[k].pc \in {"returned", "collected"}}

Outcome(k) ==
    IF tasks[k].pc = "collected" /\ k <= Len(all_matches) THEN all_matches[k]
    ELSE tasks[k].match

\* C3: process_tender does not fail because the matching of an item failed.
\* The one failure of it as a whole is that of a batch size of 0, before any
\* item is matched; no item's coroutine ends with an exception; and the
\* finished tender, sequential or parallel, holds one entry per item in
\* input order, an error entry with a message for each item whose matching
\* raised.
C3_TenderSurvivesItemFailure ==
    /\ tender_pc = "raised" =>
          /\ mode = "parallel"
          /\ settings.max_parallel_items = 0
          /\ \A k \in 1..Len(items) : tasks[k].pc = "pending"
    /\ \A k \in 1..Len(items) : tasks[k].pc # "raised"
    /\ tender_pc = "done" =>
          /\ mode \in {"sequential", "parallel"}
          /\ Len(all_matches) = Len(items)
          /\ \A k \in 1..Len(items) :
                /\ all_matches[k].tender_item_id = k
                /\ all_matches[k].processing_status \in Terminal
                /\ tasks[k].std_raised # "" =>
                      /\ all_matches[k].processing_status = "error"
                      /\ all_matches[k].error_message # ""
          /\ result.matched_items =
                Cardinality({k \in 1..Len(items) : all_matches[k].total_matches > 0})

\* A sequential tender finished whose first item failed and whose later item
\* was matched with products.
C3_Witness ==
    /\ tender_pc = "done"
    /\ mode = "sequential"
    /\ Len(all_matches) >= 2
    /\ all_matches[1].processing_status = "error"
    /\ \E k \in 2..Len(all_matches) : all_matches[k].total_matches > 0
    /\ result.matched_items > 0

C5_TerminalStatus ==
    \A k \in Ended :
        LET m == Outcome(k)
            finds == tasks[k].finds
        IN  /\ m.processing_status \in Terminal
            /\ Len(finds) >= 1
            /\ m.processing_status = "no_matches" <=> finds[Len(finds)] = 0
            /\ finds[1] = 0 => Len(finds) = 1
            /\ finds[Len(finds)] > 0 => tasks[k].scored
            /\ m.processing_status = "success" =>
                  \A i \in 1..(Len(m.matched_products) - 1) :
                      m.matched_products[i].match_score >= m.matched_products[i + 1].match_score
            /\ m.processing_status # "success" => m.matched_products = << >>

\* One tender holds an item without candidates and an item that was scored
\* and ranked into a success with several products.
C5_Witness ==
    \E j, k \in Ended :
        /\ Outcome(j).processing_status = "no_matches"
        /\ tasks[j].finds = <<0>>
        /\ Outcome(k).processing_status = "success"
        /\ tasks[k].scored
        /\ Len(Outcome(k).matched_products) >= 2

\* C6: process_tender runs the parallel mode exactly when parallel
\* processing is enabled and the tender has more items than
\* max_parallel_items; otherwise it runs the sequential mode, in which at
\* most one item is being matched at a time.
C6_ModeByThreshold ==
    tender_pc # "idle" =>
        /\ mode = IF settings.enable_parallel_processing
                     /\ Len(items) > settings.max_parallel_items
                  THEN "parallel" ELSE "sequential"
        /\ mode = "sequential" =>
              /\ Cardinality({k \in 1..Len(items) : tasks[k].pc \in Waiting}) <= 1
              /\ pauses = 0

\* A tender of exactly max_parallel_items items, two or more, was processed
\* sequentially with parallel processing enabled.
C6_Witness ==
    /\ tender_pc = "done"
    /\ settings.enable_parallel_processing
    /\ Len(items) = settings.max_parallel_items
    /\ Len(items) >= 2
    /\ mode = "sequential"
    /\ Len(all_matches) = Len(items)

\* C7: in parallel mode at most max_parallel_items items are in flight; the
\* items dispatched are those of the batches up to the current one, batches
\* of max_parallel_items consecutive items, the last one of the remaining
\* items; an item is in flight only when every item of the batches before
\* its own was collected; and a pause was begun after every batch collected
\* but the last.
C7_BoundedBatches ==
    (mode = "parallel" /\ tender_pc # "raised") =>
        LET M == settings.max_parallel_items
            n == Len(items)
            c == Len(all_matches)
            started == {k \in 1..n : tasks[k].pc # "pending"}
        IN  /\ M >= 1
            /\ Cardinality({k \in 1..n : tasks[k].pc \in Waiting}) <= M
            /\ c = n \/ c % M = 0
            /\ started = 1..(IF tender_pc = "par_gather" THEN Min(c + M, n) ELSE c)
            /\ \A k \in started : tasks[k].pc = "collected" <=> k <= c
            /\ tender_pc = "par_sleep" => c < n
            /\ tender_pc = "done" => c = n
            /\ pauses = IF c = n THEN (n + M - 1) \div M - 1 ELSE c \div M

\* Three items in batches of two: the second batch, of the one remaining
\* item, was collected after one pause.
C7_Witness ==
    /\ mode = "parallel"
    /\ tender_pc = "done"
    /\ settings.max_parallel_items = 2
    /\ Len(items) = 3
    /\ Len(all_matches) = 3
    /\ pauses = 1

\* C10 as stated: the classification code of every candidate of an item
\* starts with one of the search patterns of the item's code.
C10_CandidatesUnderItemCode ==
    \A k \in 1..Len(items) :
        \A code \in tasks[k].cand_codes :
            \E j \in 1..Len(SearchPatterns(items[k].okpd2Code)) :
                IsPrefix(SearchPatterns(items[k].okpd2Code)[j], code)

\* C8 as stated: the resolver returns no product twice and no more than
\* max_results products.
C8_ResolverResultBounded ==
    rs_pc = "returned" =>
        /\ Len(rs_result) <= rs_args.max_results
        /\ \A i, j \in 1..Len(rs_result) :
              Product(rs_result[i].p).product_hash = Product(rs_result[j].p).product_hash
                  => i = j

\* C9 as stated: the j-th query of the resolver filters by the j-th search
\* pattern of the code, there are no more queries than patterns, and the
\* resolver returns fewer than min_results products only when it has
\* queried every pattern.
C9_NarrowestPatternFirst ==
    LET pats == SearchPatterns(rs_args.okpd2_code)
    IN  /\ Len(rs_queries) <= Len(pats)
        /\ \A j \in 1..Min(Len(rs_queries), Len(pats)) :
              \A i \in 1..CatalogSize :
                  MatchesFilter(rs_queries[j].filter, i) <=> IsPrefix(pats[j], Product(i).okpd2_code)
        /\ (rs_pc = "returned" /\ Len(rs_result) < rs_args.min_results) =>
              Len(rs_queries) = Len(pats)

\* The calls of the resolver that miss a cache of the given time to live: the
\* first one, and every one made ttl or more after the miss before it.
RECURSIVE LastMiss(_, _)
LastMiss(calls, j) ==
    IF j = 1 THEN 1
    ELSE LET m == LastMiss(calls, j - 1)
         IN  IF calls[j] - calls[m] >= Okpd2CacheTtl THEN j ELSE m

CacheMisses(calls) == {j \in 1..Len(calls) : LastMiss(calls, j) = j}

\* C11: with the cache enabled, a second resolve of the same code within the
\* time to live issues no store query, and one after the time to live
\* queries the store again: the store is queried once per cache miss.
C11_CacheHitBypassesStore ==
    ~okpd2_cache.is_none => Len(rs_queries) = Cardinality(CacheMisses(rs_calls))

\* C12: the configuration knobs are read-only: no step of a request or of
\* the matching changes settings or enable_semantic_search.
C12_KnobsReadOnly ==
    [][settings' = settings /\ enable_semantic_search' = enable_semantic_search]_vars

C14_SemanticFailureIsNeutral ==
    [][\A k \in 1..Len(tasks) :
          (/\ tasks[k].pc = "enh_semantic"
           /\ tasks'[k] = AfterEnhancedScoring(
                              tasks[k], k, items[k],
                              SemanticStage(tasks[k].cands, "error", semantic_threshold),
                              settings.max_matched_products_per_item))
          => /\ tasks'[k].match.processing_status # "error"
             /\ tasks'[k] = AfterEnhancedScoring(
                                tasks[k], k, items[k], tasks[k].cands,
                                settings.max_matched_products_per_item)]_vars

\* C15: an item without characteristics gets the neutral baseline 0.5 as
\* its attribute score against any product, on the legacy and on the
\* enhanced path.
C15_NoCharacteristicsIsNeutral ==
    (fn_pc = "done" /\ fn_in.chars = << >>) =>
        /\ fn_out.raised = ""
        /\ fn_out.score = NeutralScore

\* C16: the match details hold a record, in the matched or in the missing
\* list, for every required characteristic: as many records of a name as
\* there are required characteristics of that name.
C16_RequiredCharacteristicsRecorded ==
    (fn_pc = "done" /\ fn_out.raised = "") =>
        \A i \in 1..Len(fn_in.chars) :
            fn_in.chars[i].required =>
                Cardinality({k \in 1..Len(fn_out.records) :
                                fn_out.records[k].name = fn_in.chars[i].name})
                >= Cardinality({j \in 1..Len(fn_in.chars) :
                                   /\ fn_in.chars[j].required
                                   /\ fn_in.chars[j].name = fn_in.chars[i].name})

\* C17: every match_score of a MatchedProduct of a returned TenderItemMatch
\* lies in [0, 1].
C17_MatchScoreInUnitInterval ==
    \A k \in 1..Len(tasks) :
        tasks[k].pc = "returned" =>
            \A j \in 1..Len(tasks[k].match.matched_products) :
                /\ tasks[k].match.matched_products[j].match_score >= 0
                /\ tasks[k].match.matched_products[j].match_score <= 1000

C19_BonusUpToTwice ==
    fn_pc = "done" =>
        /\ (fn_in.best_price = 0 /\ fn_in.tender_price > 0) => fn_out = 2 * fn_in.score
        /\ fn_in.score <= fn_out
        /\ fn_out <= 2 * fn_in.score

\* C20: in every returned TenderItemMatch the matched products are in
\* non-increasing order of match_score, and the matched suppliers of each
\* product in non-increasing order of their score.
C20_RankedDescending ==
    \A k \in 1..Len(tasks) :
        tasks[k].pc = "returned" =>
            LET ps == tasks[k].match.matched_products
            IN  /\ \A i, j \in 1..Len(ps) : i < j => ps[i].match_score >= ps[j].match_score
                /\ \A i \in 1..Len(ps) :
                      \A a, b \in 1..Len(ps[i].matched_suppliers) :
                          a < b => ps[i].matched_suppliers[a].match_score
                                   >= ps[i].matched_suppliers[b].match_score

\* A returned match whose best product is not the first of the store's
\* answer and has suppliers of different scores.
C20_Witness ==
    \E k \in 1..Len(tasks) :
        /\ tasks[k].pc = "returned"
        /\ Len(tasks[k].match.matched_products) >= 2
        /\ tasks[k].match.matched_products[1].product_hash = 2
        /\ tasks[k].match.matched_products[1].match_score
              > tasks[k].match.matched_products[2].match_score
        /\ \E i \in 1..Len(tasks[k].match.matched_products) :
              LET ss == tasks[k].match.matched_products[i].matched_suppliers
              IN  /\ Len(ss) = 2
                  /\ ss[1].supplier_key = "s2"
                  /\ ss[1].match_score > ss[2].match_score

\* C21: a returned TenderItemMatch has at most
\* settings.max_matched_products_per_item matched products, and no scored
\* product left out of it has a higher score than one of them.
C21_BoundedToBestProducts ==
    \A k \in 1..Len(tasks) :
        tasks[k].pc = "returned" =>
            LET ps == tasks[k].match.matched_products
            IN  /\ Len(ps) <= settings.max_matched_products_per_item
                /\ \A j \in 1..Len(ps) : ps[j].match_score >= tasks[k].dropped_max

\* A result cut to the maximum that leaves out a product of a lower score
\* than the best one.
C21_Witness ==
    \E k \in 1..Len(tasks) :
        LET ps == tasks[k].match.matched_products
        IN  /\ tasks[k].pc = "returned"
            /\ Len(ps) = settings.max_matched_products_per_item
            /\ tasks[k].dropped_max # Absent
            /\ ps[1].match_score > tasks[k].dropped_max

\* The texts of the comparison are both bare numbers / the tender text is
\* a two-sided condition of the signs lo and hi and the product text a bare
\* number.
BareNumber(text) == Len(text) = 1 /\ IsNum(text, 1)
TwoSided(text, lo, hi) == Len(text) = 5 /\ IsBetweenAt(text, 1, lo, hi)

\* C22: a bare-number tender condition v matches a numeric value c if and
\* only if |c - v| <= 10% of |v|, for every v, 0 included, in the legacy
\* and in the enhanced comparison.
C22_EqualsWithinTenPercent ==
    (fn_pc = "done" /\ BareNumber(fn_in.tender_value) /\ BareNumber(fn_in.product_value)) =>
        LET v == fn_in.tender_value[1].val
            c == fn_in.product_value[1].val
            within == 10 * (IF c >= v THEN c - v ELSE v - c) <= v
        IN  /\ fn_out.legacy <=> within
            /\ fn_out.enhanced <=> within

\* C23: a two-sided condition is evaluated with the boundaries as written,
\* both bounds enforced: '>= X and < Y' matches c iff X <= c < Y,
\* '> X and <= Y' iff X < c <= Y, '>= X and <= Y' iff X <= c <= Y, in the
\* legacy and in the enhanced comparison.
C23_RangeBoundsAsWritten ==
    (fn_pc = "done" /\ BareNumber(fn_in.product_value)) =>
        LET tv == fn_in.tender_value
            c == fn_in.product_value[1].val
            expected(in_range) == /\ fn_out.legacy <=> in_range
                                  /\ fn_out.enhanced <=> in_range
        IN  /\ TwoSided(tv, ">=", "<") => expected(tv[2].val <= c /\ c < tv[5].val)
            /\ TwoSided(tv, ">", "<=") => expected(tv[2].val < c /\ c <= tv[5].val)
            /\ TwoSided(tv, ">=", "<=") => expected(tv[2].val <= c /\ c <= tv[5].val)

\* The score band of a best_match_score in thousandths
BandOf(score) ==
    CASE score >= 900 -> "items_with_perfect_match"
      [] score >= 700 -> "items_with_good_match"
      [] score >= 500 -> "items_with_partial_match"
      [] score = 0 -> "items_without_match"
      [] OTHER -> "no band"

\* C24: in the summary of a returned tender no item result is counted in
\* two bands, every band counter is the number of item results whose
\* best_match_score lies in the band, and matched_items is the number of
\* item results with at least one matched product.
C24_BandsPartitionItems ==
    tender_pc = "done" =>
        /\ \A band \in DOMAIN result.bands :
               result.bands[band] =
                   Cardinality({k \in 1..Len(all_matches) :
                                    BandOf(all_matches[k].best_match_score) = band})
        /\ SumSeq([k \in 1..4 |->
                      result.bands[<<"items_with_perfect_match", "items_with_good_match",
                                     "items_with_partial_match", "items_without_match">>[k]]])
               <= Len(all_matches)
        /\ result.matched_items =
               Cardinality({k \in 1..Len(all_matches) : all_matches[k].matched_products # << >>})

\* A returned tender with an item result of score 0 beside two with
\* matched products, of scores in two different bands.
C24_Witness ==
    /\ tender_pc = "done"
    /\ \E i, j, k \in 1..Len(all_matches) :
           /\ all_matches[i].best_match_score = 0
           /\ all_matches[j].matched_products # << >>
           /\ all_matches[k].matched_products # << >>
           /\ BandOf(all_matches[j].best_match_score) # BandOf(all_matches[k].best_match_score)

\* C25: the total supplier count of the summary of a returned tender is the
\* number of distinct supplier keys among the matched products of all
\* items.
C25_DistinctSuppliersCounted ==
    tender_pc = "done" =>
        result.total_suppliers =
            Cardinality(UNION {UNION {{ms.matched_products[j].matched_suppliers[s].supplier_key :
                                          s \in 1..Len(ms.matched_products[j].matched_suppliers)} :
                                      j \in 1..Len(ms.matched_products)} :
                               ms \in Range(all_matches)})

\* C26: the error count in the summary of a returned tender, sequential or
\* parallel, is the number of item results of status error, in the summary
\* of the engine where it has the counter and in the summary of the v2
\* result.
C26_ErrorCountReported ==
    tender_pc = "done" =>
        LET errors == Cardinality({k \in 1..Len(all_matches) :
                                       all_matches[k].processing_status = "error"})
        IN  /\ result.items_with_errors # Absent => result.items_with_errors = errors
            /\ SummaryV2(result).items_with_errors = errors

\* C27: in the result of a returned tender, in both modes and for every
\* input, total_items is the number of entries of item_matches and
\* matched_items is at most total_items.
C27_TotalItemsCountsEntries ==
    tender_pc = "done" =>
        /\ result.total_items = Len(all_matches)
        /\ result.matched_items <= result.total_items

\* C28: every TenderItemMatch is status-consistent: status success comes
\* with at least one matched product and the score of the first product as
\* best_match_score, status no_matches or error with an empty product list
\* and best_match_score 0, and error_message is set exactly with status
\* error.
C28_StatusConsistent ==
    \A m \in {tasks[k].match : k \in {j \in 1..Len(tasks) : tasks[j].pc = "returned"}}
             \cup Range(all_matches) :
        /\ m.processing_status = "success" =>
               /\ m.matched_products # << >>
               /\ m.best_match_score = m.matched_products[1].match_score
        /\ m.processing_status \in {"no_matches", "error"} =>
               /\ m.matched_products = << >>
               /\ m.best_match_score = 0
        /\ m.error_message # "" <=> m.processing_status = "error"

\* C29: under every interleaving of concurrent requests that override
\* max_results, the result a request gets back from the matching has at
\* most the request's own max_results products, and when all requests
\* have finished settings.max_matched_products_per_item has the value it
\* had before the requests started.
C29_RequestsIsolated ==
    /\ \A r \in 1..Len(api) :
           (api[r].pc = "awaiting" /\ tasks[r].pc = "returned"
                /\ api[r].max_results # Absent) =>
               Len(tasks[r].match.matched_products) <= api[r].max_results
    /\ (api # << >> /\ \A r \in 1..Len(api) : api[r].pc = "done") =>
           settings.max_matched_products_per_item = DefaultSettings.max_matched_products_per_item

\* C30: for every tender of n >= 1 items and every max_parallel_items >= 0,
\* process_tender returns a result, the matching of every item
\* terminating: it is not ended by an exception; and a tender returned in
\* parallel mode was run in ceil(n / batch_size) batches, every item
\* dispatched and collected once.
C30_ReturnsAfterAllBatches ==
    /\ items # << >> => tender_pc # "raised"
    /\ (tender_pc = "done" /\ mode = "parallel") =>
           LET n == Len(items)
               size == BatchSize(settings, n)
           IN  /\ pauses + 1 = (n + size - 1) \div size
               /\ \A k \in 1..n : tasks[k].pc = "collected"
               /\ [k \in 1..n |-> all_matches[k].tender_item_id] = [k \in 1..n |-> k]

====
